---- MODULE Spec2Model ----
(***************************************************************************)
(* A model of the aiohttp integration of ddtrace:                          *)
(*   ddtrace/contrib/aiohttp/patch.py       (client proxies, server        *)
(*                                           dispatch wrapper, patching)   *)
(*   ddtrace/contrib/aiohttp/middlewares.py (trace_app; the middleware and *)
(*                                           on_prepare are inside a       *)
(*                                           string literal, lines 22-164, *)
(*                                           and are not executable)       *)
(*                                                                         *)
(* The module has six parts, each with its own specification:              *)
(*   SpecClient   : _create_wrapped_request and _WrappedRequestContext     *)
(*   SpecResponse : _WrappedResponseClass (construction and read)          *)
(*   SpecStart    : _WrappedResponseClass (construction and start)         *)
(*   SpecServer   : with_modules / traced__handle around Application._handle*)
(*   SpecPrepare  : on_prepare, as its text reads                          *)
(*   SpecPatch    : patch / unpatch and the targets they wrap              *)
(***************************************************************************)
EXTENDS Integers, Sequences, FiniteSets, TLC

\* ------------------------------------------------------------------ bounds
\* Interactions (await / __aenter__ / __aexit__) with one request proxy.
MaxOps == 3

\* Trace and span ids are drawn from 1..MaxId; 0 stands for None.
MaxId == 2
\* Inbound requests served one after the other on the same unit.
MaxRequests == 2
\* Calls of patch() and of unpatch().
MaxPatchCalls == 3
MaxUnpatchCalls == 2

\* ------------------------------------------------------------- input sets
\* Response statuses the wrapped operation may complete with.
Statuses == {200, 500, 503}
\* Exceptions the wrapped operation may raise (cancellation and timeout surface
\* as exceptions at the await).
Excs == {"ClientError", "CancelledError", "TimeoutError"}
\* Response header names that may be configured / present.
Headers == {"Server"}
\* Values the wrapped object's __aexit__ may return.
AExitRets == {"None", "False"}
\* Header names a caller may pass in `headers`.
CallerHeaders == {"Accept"}
\* What the caller passes as `headers`: no such keyword, None, or a collection.
HeaderArgs ==
    [kind : {"absent", "None"}, names : {{}}] \cup [kind : {"given"}, names : SUBSET CallerHeaders]
\* The headers propagator.inject writes.
PropagationHeaders == {"x-datadog-trace-id", "x-datadog-parent-id"}

\* Outcomes of awaiting a wrapped coroutine: a response or an exception.
OkOutcomes == [ok : {TRUE}, status : Statuses, exc : {"none"}, hdrs : SUBSET Headers]
ErrOutcomes == [ok : {FALSE}, status : {0}, exc : Excs, hdrs : {{}}]
Outcomes == OkOutcomes \cup ErrOutcomes

\* The wrapped object holds one coroutine: awaiting it again, after it has run
\* to its end, raises RuntimeError and yields no response.
ReuseOutcome == [ok |-> FALSE, status |-> 0, exc |-> "RuntimeError", hdrs |-> {}]

\* Outcomes of awaiting the wrapped object's __aexit__.
AExitOutcomes ==
    [ok : {TRUE}, ret : AExitRets, exc : {"none"}] \cup [ok : {FALSE}, ret : {"none"}, exc : Excs]

VARIABLES
    \* ---- client part
    cfg,            \* pin._config of the client integration (read-only once resolved)
    crw,            \* how _create_wrapped_request ended: "idle", "bypassed", "raised", "proxied", "index_error"
    span,           \* the ClientSession.request span
    have_context,   \* _WrappedRequestContext._self_have_context
    trail,          \* the interactions with the proxy so far, each with what its caller saw
    call,           \* what _create_wrapped_request did: the steps it took, what the underlying call received
    \* ---- response part
    tctx,           \* the ambient (task-local) tracer context of each task
    resp,           \* the _WrappedResponseClass proxy: built, _self_parent_trace_id, _self_parent_span_id
    anchor,         \* the active span of the constructing task when the proxy was built
    readSpan,       \* the span of the latest read() of the proxy
    startSpan,      \* the span of start() of the proxy and how start() ended
    \* ---- server part
    dd_cached,      \* with_modules: the instance whose pin is stored in func.__dd_cached, or "none"
    uctx,           \* the ambient tracer context of the (reused) unit that serves the requests
    req,            \* the request being served
    reqSpan,        \* the aiohttp.request span of the request being served
    handler,        \* Application._handle's coroutine: "none", "created", "running", "returned", "raised"
    prepared,       \* the response of the request has been prepared (its status is known)
    propagated,     \* the exception the framework received from the handler, or "none"
    served,         \* requests completed on the unit
    prevDist,       \* trace id of the distributed context active while the previous request was served
    respStatus,     \* the status of the prepared response of the request being served (0: not prepared)
    \* ---- on_prepare as written
    prep,           \* one call of on_prepare: the request and response it is given, what it did
    \* ---- patch part
    marker,         \* aiohttp.__datadog_patch
    layers,         \* tracing wrappers on each ClientSession target
    hooks,          \* module hooks registered for "aiohttp.web_app"
    webAppLoaded,   \* aiohttp.web_app is in sys.modules
    handleLayers,   \* traced__handle wrappers on Application._handle
    jinja,          \* aiohttp_jinja2: importable, __datadog_patch, render_template wrappers, pin
    patchCalls,     \* calls of patch() so far
    unpatchCalls,   \* calls of unpatch() so far
    lastCall,       \* the last patch() / unpatch() call: what it raised, whether it changed anything
    lastOp          \* the last logical operation invoked and the spans it created

clientVars == <<cfg, crw, span, have_context, trail, call>>
responseVars == <<tctx, resp, anchor, readSpan, startSpan>>
serverVars == <<dd_cached, uctx, req, reqSpan, handler, prepared, propagated, served, prevDist,
                respStatus>>
prepareVars == <<prep>>

patchVars == <<marker, layers, hooks, webAppLoaded, handleLayers, jinja,
               patchCalls, unpatchCalls, lastCall, lastOp>>

vars == <<cfg, crw, span, have_context, trail, call, tctx, resp, anchor, readSpan, startSpan,
          dd_cached, uctx, req, reqSpan, handler, prepared, propagated, served, prevDist,
          respStatus, prep,
          marker, layers, hooks, webAppLoaded, handleLayers, jinja,
          patchCalls, unpatchCalls, lastCall, lastOp>>

\* ====================================================================
\* Span (ddtrace.span.Span, as used by the integration)
\* ====================================================================
NoSpan ==
    [started |-> FALSE, finishCalls |-> 0, traceback |-> FALSE, error |-> 0,
     status |-> 0, hdrTags |-> {}, tagsAfterFinish |-> FALSE]

\* tracer.trace(...): a started, open span.
StartedSpan == [NoSpan EXCEPT !.started = TRUE]

\* span.finish(): one more execution of the finish routine.
SpanFinish(s) == [s EXCEPT !.finishCalls = @ + 1]

\* span.set_traceback(): error marker and traceback tags.
SetTraceback(s) ==
    [s EXCEPT !.traceback = TRUE, !.error = 1,
              !.tagsAfterFinish = @ \/ (s.finishCalls > 0)]

\* ====================================================================
\* _WrappedRequestContext
\* ====================================================================
\* __init__: the proxy keeps the span and starts without a context.
ProxyInit == FALSE

\* No call of _create_wrapped_request yet.
NoCallInfo ==
    [made |-> FALSE, enabled |-> FALSE, skip |-> FALSE, positional |-> FALSE,
     passed |-> [kind |-> "absent", names |-> {}],
     received |-> [kind |-> "absent", names |-> {}],
     steps |-> <<>>, raised |-> "none", ret |-> "none"]

\* propagator.inject(span.context, headers): the collection with the
\* propagation headers added.
Inject(names) == names \cup PropagationHeaders

\* A plausible slip: the collection created for an absent or None `headers`
\* is injected into but not handed to the call.
HeadersForCall_CreatedNotPassed(h, c) ==
    IF c.distributed /\ h.kind = "given"
    THEN [kind |-> "given", names |-> Inject(h.names)]
    ELSE h

\* _create_wrapped_request, lines 251-256: the `headers` the underlying call
\* is given. With distributed tracing on, it is the caller's collection, or an
\* empty one when the caller passed none or None, after injection.
HeadersForCall(h, c) ==
    IF c.distributed
    THEN [kind |-> "given", names |-> Inject(IF h.kind = "given" THEN h.names ELSE {})]
    ELSE h

\* _create_wrapped_request, the traced path, in the order of its statements.
TracedSteps(c) ==
    IF c.distributed THEN <<"trace", "inject", "set_tags", "call">>
                     ELSE <<"trace", "set_tags", "call">>

\* A plausible slip in _handle_response: a status of 500 is not an error.
TagResponse_ErrorAbove500(s, out, c) ==
    [s EXCEPT !.hdrTags = IF c.trace_headers # {}
                          THEN @ \cup (c.trace_headers \cap out.hdrs) ELSE @,
              !.status = out.status,
              !.error = IF 500 < out.status THEN 1 ELSE 0,
              !.tagsAfterFinish = @ \/ (s.finishCalls > 0)]

\* _handle_response, try body after a successful await: header tags, status
\* code tag, error flag.
TagResponse(s, out, c) ==
    [s EXCEPT !.hdrTags = IF c.trace_headers # {}
                          THEN @ \cup (c.trace_headers \cap out.hdrs) ELSE @,
              !.status = out.status,
              !.error = IF 500 <= out.status THEN 1 ELSE 0,
              !.tagsAfterFinish = @ \/ (s.finishCalls > 0)]

\* _handle_response, the finally clause's condition.
FinishInHandleResponse(have, c) == ~have \/ ~c.trace_context

\* _handle_response(coro): returns the span after try / except / finally.
HandleResponse(s, out, have, c) ==
    LET tagged == IF out.ok THEN TagResponse(s, out, c) ELSE SetTraceback(s)
    IN  IF FinishInHandleResponse(have, c) THEN SpanFinish(tagged) ELSE tagged

\* What the caller of _handle_response sees: the response or the same exception.
Seen(op, out) ==
    [op |-> op, wok |-> out.ok, wexc |-> out.exc, wret |-> "none",
     raised |-> out.exc, retStatus |-> out.status, retVal |-> "none"]

\* What the caller of __aexit__ sees: the finally clause's exception replaces
\* the wrapped one; `return resp` is reached only when nothing was raised.
SeenExit(xo, fin) ==
    [op |-> "aexit", wok |-> xo.ok, wexc |-> xo.exc, wret |-> xo.ret,
     raised |-> IF fin.raised # "none" THEN fin.raised ELSE xo.exc,
     retStatus |-> 0,
     retVal |-> IF fin.raised = "none" /\ xo.ok THEN xo.ret ELSE "none"]

nops == Len(trail)
last == trail[Len(trail)]

\* What `await coro` in _handle_response can produce: anything the first time
\* the wrapped coroutine is consumed, RuntimeError once it has been consumed.
AwaitOutcomes ==
    IF \E i \in 1..Len(trail) : trail[i].op \in {"await", "aenter"}
    THEN {ReuseOutcome} ELSE Outcomes

\* __aexit__, the finally clause: `self._self_have_context and
\* self._self_trace_context`. __init__ sets no _self_trace_context, so the
\* proxy's attribute lookup falls through to the wrapped object, which has no
\* such attribute: evaluating the second operand raises AttributeError, and
\* the finish call below it is not reached. With have_context false the `and`
\* short-circuits and nothing is finished.
AExitFinally(have) ==
    IF have THEN [raised |-> "AttributeError", finish |-> FALSE]
            ELSE [raised |-> "none", finish |-> FALSE]

\* ---- actions of the client part

\* _create_wrapped_request(method, func, instance, args, kwargs)
\*   enabled   : pin.tracer.enabled
\*   positional: args holds the positions the method / url lookups index
\*               (`kwargs.get("url", args[0])` evaluates args[0] whether or not
\*               the keyword is there: IndexError when the caller gave the url,
\*               or method and url, by keyword only)
\*   skip      : should_skip_request(pin, url)
\*   funcRaises: the underlying request-initiation call raises synchronously
\*   hdrs      : what the caller passed as `headers`
CreateWrappedRequest(enabled, positional, skip, funcRaises, hdrs) ==
    /\ crw = "idle"
    /\ LET info == [NoCallInfo EXCEPT !.made = TRUE, !.enabled = enabled, !.skip = skip,
                                      !.positional = positional, !.passed = hdrs]
           ended(proxy) == IF funcRaises THEN "raised" ELSE proxy
           direct == [info EXCEPT !.received = hdrs, !.steps = <<"call">>,
                                  !.raised = IF funcRaises THEN "func" ELSE "none",
                                  !.ret = IF funcRaises THEN "none" ELSE "raw"]
       IN  IF ~enabled
           THEN /\ crw' = ended("bypassed")
                /\ span' = span
                /\ call' = direct
           ELSE IF ~positional
           THEN /\ crw' = "index_error"
                /\ span' = span
                /\ call' = [info EXCEPT !.raised = "IndexError"]
           ELSE IF skip
           THEN /\ crw' = ended("bypassed")
                /\ span' = span
                /\ call' = direct
           ELSE /\ crw' = ended("proxied")
                /\ span' = StartedSpan
                /\ call' = [info EXCEPT !.received = HeadersForCall(hdrs, cfg),
                                        !.steps = TracedSteps(cfg),
                                        !.raised = IF funcRaises THEN "func" ELSE "none",
                                        !.ret = IF funcRaises THEN "none" ELSE "proxy"]
    /\ have_context' = ProxyInit
    /\ UNCHANGED <<cfg, trail>>
    /\ UNCHANGED <<responseVars, serverVars, patchVars, prepareVars>>

\* __await__ / __iter__: _handle_response(self.__wrapped__)
Await(out) ==
    /\ crw = "proxied"
    /\ nops < MaxOps
    /\ span' = HandleResponse(span, out, have_context, cfg)
    /\ trail' = Append(trail, Seen("await", out))
    /\ UNCHANGED <<cfg, crw, have_context, call>>
    /\ UNCHANGED <<responseVars, serverVars, patchVars, prepareVars>>

\* __aenter__: have_context is set, then _handle_response(wrapped.__aenter__())
AEnter(out) ==
    /\ crw = "proxied"
    /\ nops < MaxOps
    /\ have_context' = TRUE
    /\ span' = HandleResponse(span, out, TRUE, cfg)
    /\ trail' = Append(trail, Seen("aenter", out))
    /\ UNCHANGED <<cfg, crw, call>>
    /\ UNCHANGED <<responseVars, serverVars, patchVars, prepareVars>>

\* __aexit__: await wrapped.__aexit__(...), then the finally clause, then
\* `return resp`.
AExit(xo) ==
    /\ crw = "proxied"
    /\ nops < MaxOps
    /\ LET fin == AExitFinally(have_context)
       IN  /\ span' = IF fin.finish THEN SpanFinish(span) ELSE span
           /\ trail' = Append(trail, SeenExit(xo, fin))
    /\ UNCHANGED <<cfg, crw, have_context, call>>
    /\ UNCHANGED <<responseVars, serverVars, patchVars, prepareVars>>

\* ---- claims about the client part

\* C1: whatever the sequence of bare-await, scoped-entry and scoped-exit
\* interactions with one proxy and whatever trace_context is, the finish
\* routine of the bound span never executes a second time.
C1_FinishNeverTwice == span.finishCalls <= 1

\* C2: with trace_context enabled the span is still open after a successful
\* __aenter__ and is finished by the __aexit__ that follows it; with
\* trace_context disabled the span is finished when __aenter__ completes.
C2_DeferredFinishOnExit ==
    /\ (nops = 1 /\ trail[1].op = "aenter" /\ trail[1].wok)
          => span.finishCalls = (IF cfg.trace_context THEN 0 ELSE 1)
    /\ (nops = 2 /\ trail[1].op = "aenter" /\ trail[1].wok
                 /\ trail[2].op = "aexit" /\ cfg.trace_context)
          => span.finishCalls = 1

\* The half of C2 the code keeps: where the span stands when __aenter__ returns.
C2_AfterEnter ==
    (nops = 1 /\ trail[1].op = "aenter" /\ trail[1].wok)
       => span.finishCalls = (IF cfg.trace_context THEN 0 ELSE 1)

\* C3: when the wrapped operation raises while awaited or entered, the span
\* carries the traceback, the caller sees the same exception, and the span is
\* finished, in either consumption mode and for either trace_context.
C3_ErrorTaggedReraisedFinished ==
    (nops >= 1 /\ last.op \in {"await", "aenter"} /\ ~last.wok)
       => /\ span.traceback
          /\ last.raised = last.wexc
          /\ span.finishCalls >= 1

\* C4: __aenter__ then __aexit__, the wrapped object's two calls both
\* succeeding: the proxy's __aexit__ raises nothing and returns the wrapped
\* __aexit__ result.
C4_ExitRaisesNothing ==
    (nops = 2 /\ trail[1].op = "aenter" /\ trail[1].wok
              /\ trail[2].op = "aexit" /\ trail[2].wok)
       => /\ trail[2].raised = "none"
          /\ trail[2].retVal = trail[2].wret

\* C5: a client span started by _create_wrapped_request is finished exactly
\* once however the operation ends; here the end is the request-initiation
\* call raising before a proxy exists, after which nothing holds the span.
C5_StartedSpanFinishedWhenCallRaises ==
    (crw = "raised" /\ span.started) => span.finishCalls = 1

\* Position of step x in the steps of the call (0: not taken).
StepAt(x) ==
    IF \E i \in 1..Len(call.steps) : call.steps[i] = x
    THEN CHOOSE i \in 1..Len(call.steps) : call.steps[i] = x
    ELSE 0

\* C13: with distributed tracing enabled and the request not skipped, the
\* propagation headers are injected before the underlying call is invoked, and
\* the call receives as `headers` the caller's collection, or an empty one when
\* the caller passed none or None, with the propagation headers in it.
C13_InjectBeforeCall ==
    (call.made /\ call.enabled /\ ~call.skip /\ cfg.distributed /\ StepAt("call") # 0)
       => /\ StepAt("inject") # 0
          /\ StepAt("inject") < StepAt("call")
          /\ StepAt("trace") < StepAt("inject")
          /\ call.received.kind = "given"
          /\ call.received.names = call.passed.names \cup PropagationHeaders

\* C13's case: the caller passed headers=None, the call is made with a
\* collection holding the propagation headers.
C13_Witness ==
    /\ call.made /\ call.enabled /\ ~call.skip /\ cfg.distributed
    /\ call.passed.kind = "None"
    /\ StepAt("call") = 4 /\ StepAt("inject") = 2
    /\ call.received = [kind |-> "given", names |-> PropagationHeaders]

\* C14: when the skip policy matches the url, or the tracer is disabled,
\* _create_wrapped_request starts no span, injects no headers, hands the
\* caller's arguments to the underlying call as they are, and returns that
\* call's own result, not a proxy (the call raising aside).
C14_BypassReturnsRawResult ==
    (call.made /\ (call.skip \/ ~call.enabled))
       => /\ ~span.started
          /\ StepAt("inject") = 0
          /\ StepAt("call") # 0 => call.received = call.passed
          /\ call.raised \in {"none", "func"}
          /\ call.raised = "none" => call.ret = "raw"

\* The part of C14 the code keeps: what the bypass does when the lookups of
\* method and url find their positions in args.
C14_BypassWhenPositional ==
    (call.made /\ (call.skip \/ ~call.enabled) /\ call.positional)
       => /\ ~span.started
          /\ call.steps = <<"call">>
          /\ call.received = call.passed
          /\ call.raised = "none" => call.ret = "raw"

\* C15: when the wrapped operation completes with a response of status s,
\* the span's status code tag is s, its error flag is set exactly when
\* s >= 500, and both were written before the finish routine ran.
C15_StatusAndErrorBeforeFinish ==
    (nops >= 1 /\ last.op \in {"await", "aenter"} /\ last.wok)
       => /\ span.status = last.retStatus
          /\ (span.error = 1) <=> (last.retStatus >= 500)
          /\ ~span.tagsAfterFinish

\* C15's case: a bare await that completes with status 500 and finishes the
\* span.
C15_Witness ==
    /\ nops >= 1 /\ last.op = "await" /\ last.wok
    /\ last.retStatus = 500
    /\ span.status = 500 /\ span.error = 1 /\ span.finishCalls = 1

InitClient ==
    /\ cfg \in [trace_context : BOOLEAN, trace_headers : SUBSET Headers, distributed : BOOLEAN]
    /\ crw = "idle"
    /\ span = NoSpan
    /\ have_context = FALSE
    /\ trail = <<>>
    /\ call = NoCallInfo

NextClient ==
    \/ \E enabled \in BOOLEAN, positional \in BOOLEAN, skip \in BOOLEAN,
          funcRaises \in BOOLEAN, hdrs \in HeaderArgs :
          CreateWrappedRequest(enabled, positional, skip, funcRaises, hdrs)
    \/ \E out \in AwaitOutcomes : Await(out)
    \/ \E out \in AwaitOutcomes : AEnter(out)
    \/ \E xo \in AExitOutcomes : AExit(xo)

\* ====================================================================
\* Tracer context (ddtrace.context.Context, one per task)
\* ====================================================================
Tasks == {"A", "B"}
Ids == 1..MaxId
IdsOrNone == 0..MaxId

\* A context: the trace and span ids new spans are parented to, and the
\* current span (cur_span_id = 0: no current span). A current span is what the
\* context parents to.
Ctxs ==
    {c \in [trace_id : IdsOrNone, span_id : IdsOrNone,
            cur_trace_id : IdsOrNone, cur_span_id : IdsOrNone] :
        /\ (c.cur_span_id = 0) <=> (c.cur_trace_id = 0)
        /\ c.cur_span_id # 0 => (c.trace_id = c.cur_trace_id /\ c.span_id = c.cur_span_id)
        /\ c.trace_id = 0 => c.span_id = 0}

EmptyCtx == [trace_id |-> 0, span_id |-> 0, cur_trace_id |-> 0, cur_span_id |-> 0]

\* tracer.trace(name) under context c: the new span continues the context's
\* trace and is parented to its span; without a trace it starts a new one.
TracerTrace(c, freshTrace) ==
    [trace_id |-> IF c.trace_id # 0 THEN c.trace_id ELSE freshTrace,
     parent_id |-> c.span_id]

\* ====================================================================
\* _WrappedResponseClass
\* ====================================================================
NoResp == [built |-> FALSE, parent_trace_id |-> 0, parent_span_id |-> 0]
NoAnchor == [task |-> "none", had_span |-> FALSE, trace_id |-> 0, span_id |-> 0]
NoRead ==
    [made |-> FALSE, task |-> "none", trace_id |-> 0, parent_id |-> 0,
     ok |-> TRUE, traceback |-> FALSE, finishCalls |-> 0]

\* __init__: the anchor is the current span's ids, or the context's when there
\* is no current span.
CaptureAnchor(c) ==
    IF c.cur_span_id # 0
    THEN [built |-> TRUE, parent_trace_id |-> c.cur_trace_id, parent_span_id |-> c.cur_span_id]
    ELSE [built |-> TRUE, parent_trace_id |-> c.trace_id, parent_span_id |-> c.span_id]

\* A plausible slip in read(): keep the parent the ambient context gave.
ReadOverride_KeepAmbientParent(sp, r) ==
    [sp EXCEPT !.trace_id = IF r.parent_trace_id # 0 THEN r.parent_trace_id ELSE @,
               !.parent_id = IF @ = 0 /\ r.parent_span_id # 0 THEN r.parent_span_id ELSE @]

\* read(): `if self._self_parent_trace_id: span.trace_id = ...` and
\* `if self._self_parent_span_id: span.parent_id = ...`.
ReadOverride(sp, r) ==
    [sp EXCEPT !.trace_id = IF r.parent_trace_id # 0 THEN r.parent_trace_id ELSE @,
               !.parent_id = IF r.parent_span_id # 0 THEN r.parent_span_id ELSE @]

\* The _self_ attributes __init__ sets on the proxy. Any other _self_ name
\* is looked up on the wrapped response, which has none: AttributeError.
ResponseProxyAttrs == {"_self_parent_trace_id", "_self_parent_span_id"}

NoStart ==
    [made |-> FALSE, task |-> "none", trace_id |-> 0, parent_id |-> 0,
     wok |-> FALSE, respStatus |-> 0, respHdrs |-> {},
     raised |-> "none", returned |-> FALSE,
     hdrTags |-> {}, status |-> 0, methodTag |-> FALSE,
     traceback |-> FALSE, finishCalls |-> 0]

\* start(), the body of the `with` block after the span is created: what it
\* raises and the tags it sets. out is what `await self.__wrapped__.start()`
\* gives. With trace_headers configured the comprehension's iterable,
\* self._self_trace_headers, is evaluated first.
StartBody(out, c) ==
    IF ~out.ok
    THEN [raised |-> out.exc, hdrTags |-> {}, status |-> 0, methodTag |-> FALSE]
    ELSE IF c.trace_headers # {} /\ "_self_trace_headers" \notin ResponseProxyAttrs
    THEN [raised |-> "AttributeError", hdrTags |-> {}, status |-> 0, methodTag |-> FALSE]
    ELSE [raised |-> "none",
          hdrTags |-> IF c.trace_headers # {} THEN c.trace_headers \cap out.hdrs ELSE {},
          status |-> out.status, methodTag |-> TRUE]

\* ---- actions of the response part

\* The task's own work replaces its ambient context: a span starts or
\* finishes, a propagated context is activated, the context is reset. A read
\* or a start that has been made is kept beside the context it ran under.
AmbientChange(t, c) ==
    /\ tctx[t] # c
    /\ ~readSpan.made
    /\ ~startSpan.made
    /\ tctx' = [tctx EXCEPT ![t] = c]
    /\ UNCHANGED <<resp, anchor, readSpan, startSpan>>
    /\ UNCHANGED <<clientVars, serverVars, patchVars, prepareVars>>

\* _create_wrapped_response -> _WrappedResponseClass.__init__, run in task t.
ConstructResponse(t) ==
    /\ ~resp.built
    /\ resp' = CaptureAnchor(tctx[t])
    /\ anchor' = [task |-> t, had_span |-> tctx[t].cur_span_id # 0,
                  trace_id |-> tctx[t].cur_trace_id, span_id |-> tctx[t].cur_span_id]
    /\ UNCHANGED <<tctx, readSpan, startSpan>>
    /\ UNCHANGED <<clientVars, serverVars, patchVars, prepareVars>>

\* read(), run in task t: the span is created under t's ambient context,
\* re-parented, tagged, and finished when the `with` block is left, by return
\* or by the wrapped read() raising.
Read(t, freshTrace, ok) ==
    /\ resp.built
    /\ LET sp == ReadOverride(TracerTrace(tctx[t], freshTrace), resp)
       IN  readSpan' = [made |-> TRUE, task |-> t,
                        trace_id |-> sp.trace_id, parent_id |-> sp.parent_id,
                        ok |-> ok, traceback |-> ~ok, finishCalls |-> 1]
    /\ UNCHANGED <<tctx, resp, anchor, startSpan>>
    /\ UNCHANGED <<clientVars, serverVars, patchVars, prepareVars>>

\* start(), run in task t: the span is created under t's ambient context;
\* leaving the `with` block, by `return resp` or by an exception, finishes it,
\* an exception leaving its traceback on the span first.
Start(t, freshTrace, out) ==
    /\ resp.built
    /\ ~startSpan.made
    /\ LET sp == TracerTrace(tctx[t], freshTrace)
           b == StartBody(out, cfg)
       IN  startSpan' = [made |-> TRUE, task |-> t,
                         trace_id |-> sp.trace_id, parent_id |-> sp.parent_id,
                         wok |-> out.ok, respStatus |-> out.status, respHdrs |-> out.hdrs,
                         raised |-> b.raised, returned |-> b.raised = "none",
                         hdrTags |-> b.hdrTags, status |-> b.status,
                         methodTag |-> b.methodTag,
                         traceback |-> b.raised # "none", finishCalls |-> 1]
    /\ UNCHANGED <<tctx, resp, anchor, readSpan>>
    /\ UNCHANGED <<clientVars, serverVars, patchVars, prepareVars>>

\* ---- claims about the response part

\* C6: a proxy built in a task that had an active span (trace id T, span id S)
\* gives every later read(), in whatever task and under whatever ambient
\* context, a span with trace id T and parent id S. (read() leaves the ambient
\* context as it found it, so tctx in the state after a read is the context
\* that read ran under.)
C6_ReadReparented ==
    (readSpan.made /\ anchor.had_span)
       => /\ readSpan.trace_id = anchor.trace_id
          /\ readSpan.parent_id = anchor.span_id

\* C6's case: a read in another task whose ambient context belongs to another
\* trace and has its own current span.
C6_Witness ==
    /\ readSpan.made /\ anchor.had_span
    /\ readSpan.task # anchor.task
    /\ tctx[readSpan.task].cur_span_id # 0
    /\ tctx[readSpan.task].trace_id # anchor.trace_id
    /\ tctx[readSpan.task].span_id # anchor.span_id
    /\ readSpan.parent_id # tctx[readSpan.task].span_id

\* C16: when the wrapped start() gives a response, start() tags the span
\* with each configured header the response has (none when trace_headers is
\* empty), with the status and the method, finishes the span and returns the
\* response, raising nothing of its own, whether trace_headers is empty or not.
C16_StartTagsAndReturns ==
    (startSpan.made /\ startSpan.wok)
       => /\ startSpan.raised = "none"
          /\ startSpan.returned
          /\ startSpan.hdrTags = cfg.trace_headers \cap startSpan.respHdrs
          /\ startSpan.status = startSpan.respStatus
          /\ startSpan.methodTag
          /\ startSpan.finishCalls = 1

\* The part of C16 the code keeps: start() with trace_headers empty.
C16_StartWithoutTraceHeaders ==
    (startSpan.made /\ startSpan.wok /\ cfg.trace_headers = {})
       => /\ startSpan.raised = "none"
          /\ startSpan.returned
          /\ startSpan.hdrTags = {}
          /\ startSpan.status = startSpan.respStatus
          /\ startSpan.methodTag
          /\ startSpan.finishCalls = 1

InitResponse ==
    /\ tctx = [t \in Tasks |-> EmptyCtx]
    /\ resp = NoResp
    /\ anchor = NoAnchor
    /\ readSpan = NoRead
    /\ startSpan = NoStart

NextResponse ==
    \/ \E t \in Tasks, c \in Ctxs : AmbientChange(t, c)
    \/ \E t \in Tasks : ConstructResponse(t)
    \/ \E t \in Tasks, ft \in Ids, ok \in BOOLEAN : Read(t, ft, ok)

\* start() beside construction and the tasks' own work.
NextStart ==
    \/ \E t \in Tasks, c \in Ctxs : AmbientChange(t, c)
    \/ \E t \in Tasks : ConstructResponse(t)
    \/ \E t \in Tasks, ft \in Ids, out \in Outcomes : Start(t, ft, out)

\* ====================================================================
\* Server: with_modules("aiohttp", "aiohttp.web_app") / traced__handle around
\* Application._handle. trace_app installs nothing (its body is `pass`), so
\* no middleware runs and no on_response_prepare hook is registered.
\* ====================================================================
Apps == {"app1", "app2"}
PinStates == {"absent", "disabled", "enabled"}
NoHdr == [trace_id |-> 0, parent_id |-> 0]
\* Propagation headers of an inbound request: none, or a trace id and parent id.
Hdrs == {NoHdr} \cup [trace_id : Ids, parent_id : Ids]

\* request.method values.
HttpMethods == {"GET", "POST"}
\* response.status values.
RespStatuses == {204, 404, 503}

\* request.match_info.route: whether it has a resource, and what the
\* resource's get_info() holds under "path", "formatter" and "prefix"
\* ("": the key is absent or its value is empty).
Routes ==
    {r \in [resource : BOOLEAN, path : {"", "/users"}, formatter : {"", "/users/{id}"},
            prefix : {"", "/static"}] :
        ~r.resource => (r.path = "" /\ r.formatter = "" /\ r.prefix = "")}

\* stringify(response.status)
Stringify(n) == ToString(n)

NoRoute == [resource |-> FALSE, path |-> "", formatter |-> "", prefix |-> ""]

NoReq == [app |-> "none", hdr |-> NoHdr, pinState |-> "absent", method |-> "GET", route |-> NoRoute]
NoReqSpan ==
    [started |-> FALSE, trace_id |-> 0, parent_id |-> 0, finishCalls |-> 0,
     traceback |-> FALSE, measured |-> FALSE, analytics |-> FALSE, pin |-> "none",
     openWhileRunning |-> FALSE, resource |-> ""]

\* The trace id the tracer mints for the n-th request's span when the context
\* carries none. Minted ids are kept apart from propagated ones (negative):
\* ids are random 64-bit numbers and collisions are not modelled.
Minted(n) == 0 - n

\* with_modules.wrapper: the pin the decorated function is called with, or
\* "direct" when the wrapped function is called without tracing. A stored
\* __dd_cached is used whatever the instance of this call is; otherwise the
\* pin found for the instance decides, and an enabled one is stored.
ResolvePin(cached, app, pinState) ==
    IF cached # "none" THEN [pin |-> cached, store |-> cached]
    ELSE IF pinState # "enabled" THEN [pin |-> "direct", store |-> "none"]
    ELSE [pin |-> app, store |-> app]

\* traced__handle: the `with pin.tracer.trace(...) as span` block. The span
\* is named "aiohttp.request" and no resource is given: the name stands as
\* its resource. The body
\* tags the span and evaluates `wrapped(*args, **kwargs)`, which builds the
\* coroutine of Application._handle without running it; the return leaves the
\* `with` block, which finishes the span.
TracedHandleSpan(c, n, pin, analyticsOn) ==
    LET t == TracerTrace(c, Minted(n))
    IN  [NoReqSpan EXCEPT !.started = TRUE, !.trace_id = t.trace_id,
                          !.parent_id = t.parent_id, !.measured = TRUE,
                          !.analytics = analyticsOn, !.pin = pin,
                          !.resource = "aiohttp.request",
                          !.finishCalls = 1]

\* NOT_STARTED -> SPAN_OPEN -> FINALIZED, read off the request span.
ReqState ==
    IF ~reqSpan.started THEN "NOT_STARTED"
    ELSE IF reqSpan.finishCalls = 0 THEN "SPAN_OPEN" ELSE "FINALIZED"

\* ---- actions of the server part

\* The framework calls Application._handle(request) on instance `app`: the
\* with_modules wrapper, then traced__handle or the wrapped function itself.
\* Everything up to the return of the coroutine object is synchronous.
\*   hdr        : the request's propagation headers
\*   pinState   : what Pin._find(aiohttp, aiohttp.web_app, instance) gives
\*   analyticsOn: the analytics condition of traced__handle
\*   method, route: request.method and request.match_info.route
Dispatch(app, hdr, pinState, analyticsOn, method, route) ==
    /\ handler = "none"
    /\ served < MaxRequests
    /\ LET r == ResolvePin(dd_cached, app, pinState)
       IN  /\ dd_cached' = r.store
           /\ reqSpan' = IF r.pin = "direct" THEN NoReqSpan
                         ELSE TracedHandleSpan(uctx, served + 1, r.pin, analyticsOn)
    /\ req' = [app |-> app, hdr |-> hdr, pinState |-> pinState, method |-> method, route |-> route]
    /\ handler' = "created"
    /\ prepared' = FALSE
    /\ respStatus' = 0
    /\ propagated' = "none"
    /\ UNCHANGED <<uctx, served, prevDist>>
    /\ UNCHANGED <<clientVars, responseVars, patchVars, prepareVars>>

\* The framework awaits the coroutine: the handler starts to execute.
HandlerStart ==
    /\ handler = "created"
    /\ handler' = "running"
    /\ reqSpan' = [reqSpan EXCEPT !.openWhileRunning = reqSpan.started /\ reqSpan.finishCalls = 0]
    /\ UNCHANGED <<dd_cached, uctx, req, prepared, propagated, served, prevDist, respStatus>>
    /\ UNCHANGED <<clientVars, responseVars, patchVars, prepareVars>>

\* Application code, while the handler runs, activates the distributed
\* context the request's headers carry.
AppActivate ==
    /\ handler = "running"
    /\ req.hdr # NoHdr
    /\ uctx' = [trace_id |-> req.hdr.trace_id, span_id |-> req.hdr.parent_id,
                cur_trace_id |-> 0, cur_span_id |-> 0]
    /\ uctx' # uctx
    /\ UNCHANGED <<dd_cached, req, reqSpan, handler, prepared, propagated, served, prevDist, respStatus>>
    /\ UNCHANGED <<clientVars, responseVars, patchVars, prepareVars>>

\* The response is prepared (on_response_prepare fires): no hook of the
\* integration is registered, the request span is not touched.
PrepareResponse(status) ==
    /\ handler \in {"running", "returned"}
    /\ ~prepared
    /\ prepared' = TRUE
    /\ respStatus' = status
    /\ UNCHANGED <<dd_cached, uctx, req, reqSpan, handler, propagated, served, prevDist>>
    /\ UNCHANGED <<clientVars, responseVars, patchVars, prepareVars>>

\* The handler returns its response to the framework.
HandlerReturn ==
    /\ handler = "running"
    /\ handler' = "returned"
    /\ UNCHANGED <<dd_cached, uctx, req, reqSpan, prepared, propagated, served, prevDist, respStatus>>
    /\ UNCHANGED <<clientVars, responseVars, patchVars, prepareVars>>

\* The handler raises: the coroutine is awaited by the framework itself, the
\* exception reaches it as raised.
HandlerRaise(e) ==
    /\ handler = "running"
    /\ handler' = "raised"
    /\ propagated' = e
    /\ UNCHANGED <<dd_cached, uctx, req, reqSpan, prepared, served, prevDist, respStatus>>
    /\ UNCHANGED <<clientVars, responseVars, patchVars, prepareVars>>

\* The request is over; the unit goes on to its next request with the ambient
\* context it has.
Complete ==
    /\ \/ handler = "returned" /\ prepared
       \/ handler = "raised"
    /\ served' = served + 1
    /\ prevDist' = IF uctx.trace_id > 0 THEN uctx.trace_id ELSE 0
    /\ handler' = "none"
    /\ req' = NoReq
    /\ reqSpan' = NoReqSpan
    /\ prepared' = FALSE
    /\ respStatus' = 0
    /\ propagated' = "none"
    /\ UNCHANGED <<dd_cached, uctx>>
    /\ UNCHANGED <<clientVars, responseVars, patchVars, prepareVars>>

\* ---- claims about the server part

\* C7: a request without propagation headers, served on a unit whose previous
\* request had an active distributed context with trace id T, gets a request
\* span whose trace id is not T.
C7_NoInheritedTrace ==
    (reqSpan.started /\ req.hdr = NoHdr /\ prevDist # 0)
       => reqSpan.trace_id # prevDist

\* C8: the request span is open for as long as the handler executes, is not
\* finished before the response has been prepared, and is finished once.
C8_OpenWhileHandlerRuns ==
    /\ (reqSpan.started /\ handler \in {"created", "running"}) => ReqState = "SPAN_OPEN"
    /\ (reqSpan.started /\ reqSpan.finishCalls >= 1) => prepared
    /\ reqSpan.finishCalls <= 1

\* C9: when the handler raises while it executes, the request span carries
\* the error / traceback tags, set before its finish, and the framework
\* receives the handler's exception.
C9_HandlerErrorTagged ==
    (reqSpan.started /\ handler = "raised")
       => /\ reqSpan.traceback
          /\ reqSpan.openWhileRunning
          /\ propagated \in Excs

\* C12: once the response is prepared, the request span's resource is
\* '<METHOD> <descriptor>', the descriptor being the route resource's path,
\* else its formatter, else its prefix; with no route resource it is the
\* response status as a string, without the method.
C12_ResourceAtFinalization ==
    (reqSpan.started /\ prepared)
       => LET r == req.route
          IN  /\ (r.resource /\ r.path # "") => reqSpan.resource = req.method \o " " \o r.path
              /\ (r.resource /\ r.path = "" /\ r.formatter # "")
                    => reqSpan.resource = req.method \o " " \o r.formatter
              /\ (r.resource /\ r.path = "" /\ r.formatter = "" /\ r.prefix # "")
                    => reqSpan.resource = req.method \o " " \o r.prefix
              /\ ~r.resource => reqSpan.resource = Stringify(respStatus)

\* C17: when the pin found for the instance of the current call is absent or
\* disabled, the wrapped function is called directly and the decorated
\* function creates no span; and the decorated function gets the pin of the
\* instance of the current call, not that of an earlier call.
C17_PinOfCurrentInstance ==
    (handler # "none")
       => /\ req.pinState # "enabled" => ~reqSpan.started
          /\ reqSpan.started => reqSpan.pin = req.app

\* The part of C17 the code keeps: up to the first traced call.
C17_BeforeFirstTracedCall ==
    (handler # "none" /\ dd_cached \in {"none", req.app})
       => /\ (req.pinState # "enabled" /\ dd_cached = "none") => ~reqSpan.started
          /\ reqSpan.started => reqSpan.pin = req.app

InitServer ==
    /\ dd_cached = "none"
    /\ uctx = EmptyCtx
    /\ req = NoReq
    /\ reqSpan = NoReqSpan
    /\ handler = "none"
    /\ prepared = FALSE
    /\ propagated = "none"
    /\ served = 0
    /\ prevDist = 0
    /\ respStatus = 0

NextServer ==
    \/ \E app \in Apps, hdr \in Hdrs, pinState \in PinStates, analyticsOn \in BOOLEAN,
          method \in HttpMethods, route \in Routes :
          Dispatch(app, hdr, pinState, analyticsOn, method, route)
    \/ HandlerStart
    \/ AppActivate
    \/ \E status \in RespStatuses : PrepareResponse(status)
    \/ HandlerReturn
    \/ \E e \in Excs : HandlerRaise(e)
    \/ Complete

\* ====================================================================
\* on_prepare (middlewares.py:90-129), as it is written. The definition sits
\* inside the string literal of lines 22-164: the module defines no such
\* function and trace_app registers nothing, so this part is the hook's text
\* applied to a request and a response, not a step of the running server.
\* ====================================================================
\* The request on_prepare is given: which of the request-scoped keys it
\* holds (REQUEST_SPAN_KEY, REQUEST_CONTEXT_KEY, REQUEST_CONFIG_KEY), its
\* method, its route, and the "trace_query_string" entry of its configuration.
PrepRequests ==
    [hasSpan : BOOLEAN, hasCtx : BOOLEAN, hasConfig : BOOLEAN,
     method : HttpMethods, route : Routes, tqs : {"None", "True", "False"}]

\* The request span as the hook finds it: open, nothing set by the hook.
OpenReqSpan ==
    [resource |-> "", error |-> 0, tags |-> {}, method |-> "", status |-> 0, finishCalls |-> 0]

\* Lines 100-115: the resource label.
ResourceName(method, route, status) ==
    IF route.resource
    THEN LET descriptor == IF route.path # "" THEN route.path
                           ELSE IF route.formatter # "" THEN route.formatter
                           ELSE IF route.prefix # "" THEN route.prefix
                           ELSE Stringify(status)
         IN  method \o " " \o descriptor
    ELSE Stringify(status)

\* Lines 117-123: error flag, resource, method / status code / url tags.
PrepTagged(sp, rq, status) ==
    [sp EXCEPT !.error = IF 500 <= status /\ status < 600 THEN 1 ELSE @,
               !.resource = ResourceName(rq.method, rq.route, status),
               !.method = rq.method,
               !.status = status,
               !.tags = @ \cup {"http.method", "http.status_code", "http.url"}]

\* Lines 124-128: the query string tag, by the request's configuration or,
\* when that holds None, by the global one.
PrepQueryTagged(sp, rq, globalTqs) ==
    IF rq.tqs = "True" \/ (rq.tqs = "None" /\ globalTqs)
    THEN [sp EXCEPT !.tags = @ \cup {"http.query_string"}] ELSE sp

\* on_prepare(request, response): what it raises and the span it leaves.
\* Line 124 subscripts the request with REQUEST_CONFIG_KEY: KeyError when the
\* key is absent, after the tags are set and before the span is finished.
OnPrepare(rq, status, globalTqs) ==
    IF ~rq.hasSpan THEN [raised |-> "none", span |-> OpenReqSpan]
    ELSE IF ~rq.hasConfig
         THEN [raised |-> "KeyError", span |-> PrepTagged(OpenReqSpan, rq, status)]
    ELSE [raised |-> "none",
          span |-> [PrepQueryTagged(PrepTagged(OpenReqSpan, rq, status), rq, globalTqs)
                      EXCEPT !.finishCalls = @ + 1]]

\* ---- the action of this part

\* One call of on_prepare on the request and response drawn at the start.
OnPrepareCall ==
    /\ ~prep.called
    /\ LET r == OnPrepare(prep.rq, prep.status, prep.globalTqs)
       IN  prep' = [prep EXCEPT !.called = TRUE, !.raised = r.raised, !.span = r.span]
    /\ UNCHANGED <<clientVars, responseVars, serverVars, patchVars>>

\* ---- claims about on_prepare

OnPrepareResourceAsWritten ==
    (prep.called /\ prep.rq.hasSpan)
       => LET r == prep.rq.route
          IN  /\ (r.resource /\ r.path # "") => prep.span.resource = prep.rq.method \o " " \o r.path
              /\ (r.resource /\ r.path = "" /\ r.formatter # "")
                    => prep.span.resource = prep.rq.method \o " " \o r.formatter
              /\ (r.resource /\ r.path = "" /\ r.formatter = "" /\ r.prefix # "")
                    => prep.span.resource = prep.rq.method \o " " \o r.prefix
              /\ ~r.resource => prep.span.resource = Stringify(prep.status)

RestPrep ==
    [rq |-> [hasSpan |-> FALSE, hasCtx |-> FALSE, hasConfig |-> FALSE, method |-> "GET",
             route |-> NoRoute, tqs |-> "None"],
     status |-> 204, globalTqs |-> FALSE, called |-> FALSE, raised |-> "none",
     span |-> OpenReqSpan]

InitPrepare ==
    prep \in [rq : PrepRequests, status : RespStatuses, globalTqs : BOOLEAN,
              called : {FALSE}, raised : {"none"}, span : {OpenReqSpan}]

NextPrepare == OnPrepareCall

\* ====================================================================
\* patch() / unpatch()
\* ====================================================================
\* _clientsession_wrap_methods
Methods == {"get", "options", "head", "post", "put", "patch", "delete", "request"}
\* What patch_aiohttp wraps on ClientSession.
Targets == {"__init__"} \cup Methods

NoJinja(importable) ==
    [importable |-> importable, marker |-> FALSE, renderLayers |-> 0, pin |-> FALSE]
NoOp == [target |-> "none", spans |-> 0, afterPatches |-> 0, afterUnpatches |-> 0]
NoCall == [fn |-> "none", raised |-> "none", changed |-> FALSE]

\* A plausible slip in patch(): the marker is not consulted.
PatchGuard_Always(m) == TRUE

\* patch(): `if not getattr(aiohttp, '__datadog_patch', False)`.
PatchGuard(m) == ~m

\* patch_aiohttp: _w(...) adds one wrapper to ClientSession.__init__ and to
\* each method of _clientsession_wrap_methods.
WrapTargets(l) == [t \in Targets |-> l[t] + 1]

\* import_hooks.register_module_hook("aiohttp.web_app", patch_aiohttp_web_app):
\* the hook is kept in the set of hooks of the module.
RegisterHook(h) == h \cup {"patch_aiohttp_web_app"}

\* patch_aiohttp_web_app, run once per registered hook when the module is (or
\* already was) loaded: a pin on Application and one wrapper on _handle.
RunHooks(h, n) == n + Cardinality(h)

\* patch_aiohttp_jinja2(aiohttp_jinja2): it wraps render_template and attaches
\* the pin only when the module's marker is not yet set.
PatchJinja(j) ==
    IF ~j.marker
    THEN [j EXCEPT !.marker = TRUE, !.renderLayers = @ + 1, !.pin = TRUE]
    ELSE j

\* patch(), the aiohttp_jinja2 half: the marker is set first, then
\* patch_aiohttp_jinja2 is called.
PatchJinjaFromPatch(j) ==
    IF j.importable /\ ~j.marker
    THEN PatchJinja([j EXCEPT !.marker = TRUE])
    ELSE j

\* ---- actions of the patch part

\* patch()
Patch ==
    /\ patchCalls < MaxPatchCalls
    /\ patchCalls' = patchCalls + 1
    /\ IF PatchGuard(marker)
       THEN /\ marker' = TRUE
            /\ layers' = WrapTargets(layers)
            /\ hooks' = RegisterHook(hooks)
            /\ handleLayers' = IF webAppLoaded
                               THEN RunHooks({"patch_aiohttp_web_app"}, handleLayers)
                               ELSE handleLayers
       ELSE UNCHANGED <<marker, layers, hooks, handleLayers>>
    /\ jinja' = PatchJinjaFromPatch(jinja)
    /\ lastCall' = [fn |-> "patch", raised |-> "none",
                    changed |-> <<marker', layers', hooks', handleLayers', jinja'>>
                                  # <<marker, layers, hooks, handleLayers, jinja>>]
    /\ UNCHANGED <<webAppLoaded, unpatchCalls, lastOp>>
    /\ UNCHANGED <<clientVars, responseVars, serverVars, prepareVars>>

\* unpatch(): its first statement reads the name `aiohttp`, which the module
\* never binds (patch() imports it as a local): NameError, nothing is undone.
Unpatch ==
    /\ unpatchCalls < MaxUnpatchCalls
    /\ unpatchCalls' = unpatchCalls + 1
    /\ lastCall' = [fn |-> "unpatch", raised |-> "NameError", changed |-> FALSE]
    /\ UNCHANGED <<marker, layers, hooks, webAppLoaded, handleLayers, jinja, patchCalls, lastOp>>
    /\ UNCHANGED <<clientVars, responseVars, serverVars, prepareVars>>

\* The application imports aiohttp.web_app: the registered hooks run.
ImportWebApp ==
    /\ ~webAppLoaded
    /\ webAppLoaded' = TRUE
    /\ handleLayers' = RunHooks(hooks, handleLayers)
    /\ UNCHANGED <<marker, layers, hooks, jinja, patchCalls, unpatchCalls, lastCall, lastOp>>
    /\ UNCHANGED <<clientVars, responseVars, serverVars, prepareVars>>

\* One logical client operation, ClientSession.<m>(...) with tracing enabled
\* and the url not skipped: each wrapper layer runs _create_wrapped_request,
\* which starts one span.
InvokeClient(m) ==
    /\ lastOp' = [target |-> m, spans |-> layers[m],
                  afterPatches |-> patchCalls, afterUnpatches |-> unpatchCalls]
    /\ lastOp' # lastOp
    /\ UNCHANGED <<marker, layers, hooks, webAppLoaded, handleLayers, jinja,
                   patchCalls, unpatchCalls, lastCall>>
    /\ UNCHANGED <<clientVars, responseVars, serverVars, prepareVars>>

\* One inbound request, Application._handle(request) with an enabled pin:
\* each wrapper layer runs traced__handle, which starts one span.
InvokeHandle ==
    /\ webAppLoaded
    /\ lastOp' = [target |-> "_handle", spans |-> handleLayers,
                  afterPatches |-> patchCalls, afterUnpatches |-> unpatchCalls]
    /\ lastOp' # lastOp
    /\ UNCHANGED <<marker, layers, hooks, webAppLoaded, handleLayers, jinja,
                   patchCalls, unpatchCalls, lastCall>>
    /\ UNCHANGED <<clientVars, responseVars, serverVars, prepareVars>>

\* ---- claims about the patch part

\* C10: after patch() has been called once or more in a row, every patched
\* target (ClientSession.__init__, each request method, the web_app module
\* hook and what it wraps) carries exactly one tracing wrapper, one logical
\* operation creates one span, and the second and later calls raise nothing
\* and change nothing.
C10_PatchIdempotent ==
    (patchCalls >= 1 /\ unpatchCalls = 0)
       => /\ \A t \in Targets : layers[t] = 1
          /\ Cardinality(hooks) = 1
          /\ handleLayers = (IF webAppLoaded THEN 1 ELSE 0)
          /\ (lastOp.target # "none" /\ lastOp.afterPatches >= 1) => lastOp.spans = 1
          /\ lastCall.raised = "none"
          /\ patchCalls >= 2 => ~lastCall.changed

\* C10's case: patch() called twice in a row, then a client request made.
C10_Witness ==
    /\ patchCalls >= 2 /\ unpatchCalls = 0
    /\ lastOp.target = "get" /\ lastOp.afterPatches >= 2
    /\ lastOp.spans = 1

\* C18: whatever the sequence of patch() and unpatch() calls, no target
\* carries more than one wrapper; when unpatch() has completed no target
\* carries a wrapper and the patched markers are cleared; unpatch() raises
\* nothing; and after patch(); unpatch(); patch() one logical operation
\* creates one span.
C18_UnpatchRestores ==
    /\ \A t \in Targets : layers[t] <= 1
    /\ handleLayers <= 1
    /\ lastCall.fn = "unpatch"
          => /\ lastCall.raised = "none"
             /\ \A t \in Targets : layers[t] = 0
             /\ handleLayers = 0
             /\ ~marker /\ ~jinja.marker
    /\ (lastOp.target # "none" /\ lastOp.afterPatches >= 2 /\ lastOp.afterUnpatches >= 1)
          => lastOp.spans = 1

\* The part of C18 the code keeps: at most one wrapper per target, one span
\* per logical operation once patched, in every sequence of the two calls.
C18_AtMostOneWrapper ==
    /\ \A t \in Targets : layers[t] <= 1
    /\ handleLayers <= 1
    /\ (lastOp.target # "none" /\ lastOp.afterPatches >= 1) => lastOp.spans = 1

\* C19: with aiohttp_jinja2 importable, after the first patch()
\* render_template carries exactly one _trace_render_template wrapper and the
\* module carries a pin: the state patch_aiohttp_jinja2 gives when it is
\* called on the unpatched module.
C19_JinjaWrappedByPatch ==
    (jinja.importable /\ patchCalls >= 1)
       => /\ jinja.renderLayers = 1
          /\ jinja.pin
          /\ jinja = PatchJinja(NoJinja(TRUE))

InitPatch ==
    /\ marker = FALSE
    /\ layers = [t \in Targets |-> 0]
    /\ hooks = {}
    /\ webAppLoaded = FALSE
    /\ handleLayers = 0
    /\ jinja \in {NoJinja(b) : b \in BOOLEAN}
    /\ patchCalls = 0
    /\ unpatchCalls = 0
    /\ lastCall = NoCall
    /\ lastOp = NoOp

NextPatch ==
    \/ Patch
    \/ Unpatch
    \/ ImportWebApp
    \/ \E m \in Methods : InvokeClient(m)
    \/ InvokeHandle

\* The client configuration the other parts run under.
RestCfg == [trace_context |-> FALSE, trace_headers |-> {}, distributed |-> FALSE]
\* aiohttp_jinja2 as the other parts assume it: not importable.
RestJinja == NoJinja(FALSE)

Init == InitClient /\ InitResponse /\ InitServer /\ InitPrepare /\ InitPatch

Next == NextClient \/ NextResponse \/ NextStart \/ NextServer \/ NextPrepare \/ NextPatch

Spec == Init /\ [][Next]_vars

\* Each part on its own, the other parts at rest.
InitClientPart == Init /\ jinja = RestJinja /\ prep = RestPrep
SpecClient == InitClientPart /\ [][NextClient]_vars

InitResponsePart == Init /\ cfg = RestCfg /\ jinja = RestJinja /\ prep = RestPrep
SpecResponse == InitResponsePart /\ [][NextResponse]_vars

\* start(): trace_headers is the one entry of the configuration it reads.
InitStartPart ==
    /\ Init
    /\ cfg.trace_context = RestCfg.trace_context /\ cfg.distributed = RestCfg.distributed
    /\ jinja = RestJinja /\ prep = RestPrep
SpecStart == InitStartPart /\ [][NextStart]_vars

InitServerPart == Init /\ cfg = RestCfg /\ jinja = RestJinja /\ prep = RestPrep
SpecServer == InitServerPart /\ [][NextServer]_vars

InitPreparePart == Init /\ cfg = RestCfg /\ jinja = RestJinja
SpecPrepare == InitPreparePart /\ [][NextPrepare]_vars

InitPatchPart == Init /\ cfg = RestCfg /\ prep = RestPrep
SpecPatch == InitPatchPart /\ [][NextPatch]_vars

====
